---------------------------- MODULE Spec2Model ----------------------------
(***************************************************************************)
(* Model of qlight-ctrl: the LightCommandSet and its HID report            *)
(* (src/src/qlight.rs), the `qlight set` command line (src/src/main.rs)    *)
(* and the OSC server (src/crates/qlight-osc/src/main.rs).                 *)
(*                                                                         *)
(* Strings the program parses are sequences of one-character strings, so   *)
(* that to_lowercase, split_once and the route match are computed.         *)
(* A report is a sequence of 65 bytes; byte k of the source's array is     *)
(* element k+1 of the sequence (see Byte).                                 *)
(***************************************************************************)
EXTENDS Integers, Sequences, FiniteSets, TLC

VARIABLES
    \* --- LightCommandSet under test (qlight.rs) ---
    lcs,          \* a LightCommandSet
    prevLcs,      \* the LightCommandSet before the last set(), <<>> if none
    lastSet,      \* <<color, mode>> of the last set(), <<>> if none
    report,       \* result of the last to_report(), <<>> if none
    \* --- OSC server (qlight-osc/src/main.rs) ---
    pc,           \* position of main's loop
    packet,       \* the decoded OscPacket being handled
    light,        \* LightThing.light : "None" or "Some"
    bindingNul,   \* the configured binding path holds a NUL character
    handled,      \* number of packets received so far
    openCalls,    \* number of hidapi.open_path calls made
    openOks,      \* number of hidapi.open_path calls that succeeded
    nWritten,     \* number of reports the device accepted
    lastReport,   \* the last report the device accepted, <<>> if none
    lastWrite,    \* outcome of the write in the last handle_packet
    lastOpen,     \* outcome of get_or_init_light in the last handle_packet
    stopCause,    \* the error that ended main's loop, "none" while it runs
    \* --- qlight set (src/main.rs) ---
    cliPc,        \* position of main
    cliTokens,    \* positional arguments, as typed
    cliReset,     \* --reset
    cliAll,       \* --all
    cliPath,      \* --path values, in order
    cliDevices,   \* number of QLight devices Light::get_devices yields
    cliCommands,  \* SetArgs.commands after the value parser
    cliHidInit,   \* HidApi::new() has been called
    cliOpened,    \* targets opened, in order
    cliAttempts,  \* targets a write was attempted on, in order
    cliWrites,    \* <<target, report>> accepted by a device, in order
    cliLightset   \* the LightCommandSet computed by set(), <<>> if none

setVars == <<lcs, prevLcs, lastSet, report>>
oscVars == <<pc, packet, light, bindingNul, handled, openCalls, openOks, nWritten,
             lastReport, lastWrite, lastOpen, stopCause>>
cliVars == <<cliPc, cliTokens, cliReset, cliAll, cliPath, cliDevices,
             cliCommands, cliHidInit, cliOpened, cliAttempts, cliWrites,
             cliLightset>>
vars == <<setVars, oscVars, cliVars>>

---------------------------------------------------------------------------
\* Bounds of the model

\* packets one server run receives
MaxPackets == 3
\* positional tokens on one command line
MaxTokens == 2
\* QLight devices plugged in
MaxDevices == 2

---------------------------------------------------------------------------
\* qlight.rs : Color, LightMode, SoundMode

REPORT_ID == 87

REPORT_LEN == 65

Colors == {"Red", "Yellow", "Green", "Blue", "White"}

LightModes == {"Off", "On", "Blink", "Ignore"}

SoundModes == {"Off", "Noise1", "Noise2", "Noise3", "Noise4", "Noise5", "Ignore"}

\* `mode as u8` for a LightMode
LightModeCode(m) ==
    CASE m = "Off" -> 0
      [] m = "On" -> 1
      [] m = "Blink" -> 2
      [] m = "Ignore" -> 3

\* `mode as u8` for a SoundMode
SoundModeCode(m) ==
    CASE m = "Off" -> 0
      [] m = "Noise1" -> 1
      [] m = "Noise2" -> 2
      [] m = "Noise3" -> 3
      [] m = "Noise4" -> 4
      [] m = "Noise5" -> 5
      [] m = "Ignore" -> 6

\* LightMode::default()
LightModeDefault == "Ignore"

\* SoundMode::default() returning Off
SoundModeDefault_Off == "Off"

\* SoundMode::default()
SoundModeDefault == "Ignore"

LightCommandSets ==
    [red : LightModes, yellow : LightModes, green : LightModes,
     blue : LightModes, white : LightModes, sound : SoundModes]

\* #[derive(Default)] LightCommandSet
DefaultSet ==
    [red |-> LightModeDefault, yellow |-> LightModeDefault,
     green |-> LightModeDefault, blue |-> LightModeDefault,
     white |-> LightModeDefault, sound |-> SoundModeDefault]

\* LightCommandSet::all_off
all_off ==
    [red |-> "Off", yellow |-> "Off", green |-> "Off", blue |-> "Off",
     white |-> "Off", sound |-> "Off"]

\* set with the White arm assigning the blue field
set_WhiteHitsBlue(self, color, light_mode) ==
    CASE color = "Red" -> [self EXCEPT !.red = light_mode]
      [] color = "Yellow" -> [self EXCEPT !.yellow = light_mode]
      [] color = "Green" -> [self EXCEPT !.green = light_mode]
      [] color = "Blue" -> [self EXCEPT !.blue = light_mode]
      [] color = "White" -> [self EXCEPT !.blue = light_mode]

\* LightCommandSet::set
set(self, color, light_mode) ==
    CASE color = "Red" -> [self EXCEPT !.red = light_mode]
      [] color = "Yellow" -> [self EXCEPT !.yellow = light_mode]
      [] color = "Green" -> [self EXCEPT !.green = light_mode]
      [] color = "Blue" -> [self EXCEPT !.blue = light_mode]
      [] color = "White" -> [self EXCEPT !.white = light_mode]

\* to_report with the blue and white bytes exchanged
to_report_BlueWhiteSwapped(self) ==
    [[i \in 1..REPORT_LEN |-> 0] EXCEPT
        ![1] = REPORT_ID,
        ![3] = LightModeCode(self.red),
        ![4] = LightModeCode(self.yellow),
        ![5] = LightModeCode(self.green),
        ![6] = LightModeCode(self.white),
        ![7] = LightModeCode(self.blue),
        ![8] = SoundModeCode(self.sound)]

\* LightCommandSet::to_report
to_report(self) ==
    [[i \in 1..REPORT_LEN |-> 0] EXCEPT
        ![1] = REPORT_ID,
        ![3] = LightModeCode(self.red),
        ![4] = LightModeCode(self.yellow),
        ![5] = LightModeCode(self.green),
        ![6] = LightModeCode(self.blue),
        ![7] = LightModeCode(self.white),
        ![8] = SoundModeCode(self.sound)]

\* data[k] of a report
Byte(r, k) == r[k + 1]

\* the field of a LightCommandSet that holds a color
Channel(self, color) ==
    CASE color = "Red" -> self.red
      [] color = "Yellow" -> self.yellow
      [] color = "Green" -> self.green
      [] color = "Blue" -> self.blue
      [] color = "White" -> self.white

\* the report byte a color is written to
ColorByte(color) ==
    CASE color = "Red" -> 2
      [] color = "Yellow" -> 3
      [] color = "Green" -> 4
      [] color = "Blue" -> 5
      [] color = "White" -> 6

---------------------------------------------------------------------------
\* Strings: sequences of one-character strings

UpperChars ==
    <<"A", "B", "C", "D", "E", "F", "G", "H", "I", "J", "K", "L", "M",
      "N", "O", "P", "Q", "R", "S", "T", "U", "V", "W", "X", "Y", "Z">>

LowerChars ==
    <<"a", "b", "c", "d", "e", "f", "g", "h", "i", "j", "k", "l", "m",
      "n", "o", "p", "q", "r", "s", "t", "u", "v", "w", "x", "y", "z">>

\* char::to_lowercase on the characters of the model's strings
LowerChar(c) ==
    IF \E i \in 1..Len(UpperChars) : UpperChars[i] = c
    THEN LowerChars[CHOOSE i \in 1..Len(UpperChars) : UpperChars[i] = c]
    ELSE c

\* str::to_lowercase
to_lowercase(str) == [i \in 1..Len(str) |-> LowerChar(str[i])]

\* positions of a character in a string
Positions(str, c) == {i \in 1..Len(str) : str[i] = c}

\* least element of a non-empty set of integers
Min(S) == CHOOSE x \in S : \A y \in S : x <= y

\* str::split_once(c): <<>> for None, else <<before, after>> of the first c
split_once(str, c) ==
    IF Positions(str, c) = {} THEN <<>>
    ELSE LET i == Min(Positions(str, c))
         IN  <<SubSeq(str, 1, i - 1), SubSeq(str, i + 1, Len(str))>>

\* the pieces of a string between the occurrences of c
RECURSIVE Split(_, _)
Split(str, c) ==
    IF Positions(str, c) = {} THEN <<str>>
    ELSE LET i == Min(Positions(str, c))
         IN  <<SubSeq(str, 1, i - 1)>> \o Split(SubSeq(str, i + 1, Len(str)), c)

s_red == <<"r", "e", "d">>
s_yellow == <<"y", "e", "l", "l", "o", "w">>
s_green == <<"g", "r", "e", "e", "n">>
s_blue == <<"b", "l", "u", "e">>
s_white == <<"w", "h", "i", "t", "e">>
s_on == <<"o", "n">>
s_off == <<"o", "f", "f">>
s_blink == <<"b", "l", "i", "n", "k">>
s_lights == <<"l", "i", "g", "h", "t", "s">>
s_reset == <<"r", "e", "s", "e", "t">>

\* the failure value of the parsers and of Option
None == "None"

\* impl TryFrom<&str> for Color; None stands for Err(ParseError)
ColorTryFrom(value) ==
    LET v == to_lowercase(value)
    IN  CASE v = s_red -> "Red"
          [] v = s_yellow -> "Yellow"
          [] v = s_green -> "Green"
          [] v = s_blue -> "Blue"
          [] v = s_white -> "White"
          [] OTHER -> None

\* LightMode::try_from with an arm for "ignore"
LightModeTryFrom_AcceptsIgnore(value) ==
    LET v == to_lowercase(value)
    IN  CASE v = s_on -> "On"
          [] v = s_off -> "Off"
          [] v = s_blink -> "Blink"
          [] v = <<"i", "g", "n", "o", "r", "e">> -> "Ignore"
          [] OTHER -> None

\* impl TryFrom<&str> for LightMode; None stands for Err(ParseError)
LightModeTryFrom(value) ==
    LET v == to_lowercase(value)
    IN  CASE v = s_on -> "On"
          [] v = s_off -> "Off"
          [] v = s_blink -> "Blink"
          [] OTHER -> None

---------------------------------------------------------------------------
\* qlight-osc : the route table and the two command handlers

\* an OSC argument: its type tag and its value
OscArg(t, v) == [t |-> t, v |-> v]

\* the routes with the reset route registered without its {id} segment
Routes_ResetWithoutId ==
    <<[template |-> <<"/", "l", "i", "g", "h", "t", "s", "/", "{", "i", "d", "}", "/", "{", "c", "o", "l", "o", "r", "}">>,
       value |-> "Color"],
      [template |-> <<"/", "r", "e", "s", "e", "t">>,
       value |-> "Reset"]>>

\* the routes QlightOsc::new inserts, in order
Routes ==
    <<[template |-> <<"/", "l", "i", "g", "h", "t", "s", "/", "{", "i", "d", "}", "/", "{", "c", "o", "l", "o", "r", "}">>,
       value |-> "Color"],
      [template |-> <<"/", "r", "e", "s", "e", "t", "/", "{", "i", "d", "}">>,
       value |-> "Reset"]>>

\* a template segment of the form {name}
IsParam(seg) == Len(seg) >= 3 /\ seg[1] = "{" /\ seg[Len(seg)] = "}"

\* a path matches a template: as many segments, a literal segment equal,
\* a {name} segment one whole non-empty segment
Matches(template, path) ==
    LET t == Split(template, "/")
        a == Split(path, "/")
    IN  /\ Len(t) = Len(a)
        /\ \A i \in 1..Len(t) :
            IF IsParam(t[i]) THEN a[i] # <<>> ELSE a[i] = t[i]

\* Params::get(name) of a match: the segment bound to {name}, <<>> if none
ParamGet(template, path, name) ==
    LET t == Split(template, "/")
        a == Split(path, "/")
        at == {i \in 1..Len(t) : IsParam(t[i]) /\ SubSeq(t[i], 2, Len(t[i]) - 1) = name}
    IN  IF at = {} THEN <<>> ELSE a[Min(at)]

\* Router::at over the routes inserted by QlightOsc::new, with the two
\* parameters handle_packet reads from the match
RouterAt(addr) ==
    LET hits == {r \in 1..Len(Routes) : Matches(Routes[r].template, addr)}
    IN  IF hits = {}
        THEN [value |-> None, id |-> <<>>, color |-> <<>>]
        ELSE LET route == Routes[Min(hits)]
             IN  [value |-> route.value,
                  id |-> ParamGet(route.template, addr, <<"i", "d">>),
                  color |-> ParamGet(route.template, addr, <<"c", "o", "l", "o", "r">>)]

\* the first match of handle_color_command: the color of the parameter
ColorOfParam(color_str) ==
    LET v == to_lowercase(color_str)
    IN  CASE v = s_red -> "Red"
          [] v = s_yellow -> "Yellow"
          [] v = s_green -> "Green"
          [] v = s_blue -> "Blue"
          [] v = s_white -> "White"
          [] OTHER -> None

\* ModeOfArgs looking at the first argument only
ModeOfArgs_FirstArgOnly(args) ==
    CASE args # <<>> /\ args[1] = OscArg("Int", 0) -> "Off"
      [] args # <<>> /\ args[1] = OscArg("Int", 1) -> "On"
      [] args # <<>> /\ args[1] = OscArg("Int", 2) -> "Blink"
      [] OTHER -> None

\* ModeOfArgs with an arm for the code of Ignore
ModeOfArgs_AcceptsIgnore(args) ==
    CASE args = <<OscArg("Int", 0)>> -> "Off"
      [] args = <<OscArg("Int", 1)>> -> "On"
      [] args = <<OscArg("Int", 2)>> -> "Blink"
      [] args = <<OscArg("Int", 3)>> -> "Ignore"
      [] OTHER -> None

\* the second match of handle_color_command: the mode of the argument list
ModeOfArgs(args) ==
    CASE args = <<OscArg("Int", 0)>> -> "Off"
      [] args = <<OscArg("Int", 1)>> -> "On"
      [] args = <<OscArg("Int", 2)>> -> "Blink"
      [] OTHER -> None

\* Option<LightCommandSet>: <<>> is None, <<x>> is Some(x)
Some(x) == <<x>>

\* handle_color_command starting from all_off instead of the default
handle_color_command_FromAllOff(msg, id, color_str) ==
    LET color == ColorOfParam(color_str)
        lightmode == ModeOfArgs(msg.args)
    IN  IF color = None THEN <<>>
        ELSE IF lightmode = None THEN <<>>
        ELSE Some(set(all_off, color, lightmode))

\* QlightOsc::handle_color_command
handle_color_command(msg, id, color_str) ==
    LET color == ColorOfParam(color_str)
        lightmode == ModeOfArgs(msg.args)
    IN  IF color = None THEN <<>>
        ELSE IF lightmode = None THEN <<>>
        ELSE Some(set(DefaultSet, color, lightmode))

\* handle_reset_command returning the default command set
handle_reset_command_Default(msg, id) == Some(DefaultSet)

\* handle_reset_command resetting for the id 1 only
handle_reset_command_OnlyId1(msg, id) ==
    IF id = <<"1">> THEN Some(all_off) ELSE <<>>

\* QlightOsc::handle_reset_command
handle_reset_command(msg, id) == Some(all_off)

\* Resolve with the fallback arm acting as a reset
Resolve_FallbackResets(p) ==
    IF p.kind # "Message" THEN Some(all_off)
    ELSE LET m == RouterAt(p.addr)
         IN  CASE m.value = "Color" -> handle_color_command(p, m.id, m.color)
               [] m.value = "Reset" -> handle_reset_command(p, m.id)
               [] OTHER -> Some(all_off)

\* the Option<LightCommandSet> that handle_packet applies for a packet:
\* the match on the packet and on the route, and the handler of the route
Resolve(p) ==
    IF p.kind # "Message" THEN <<>>
    ELSE LET m == RouterAt(p.addr)
         IN  CASE m.value = "Color" -> handle_color_command(p, m.id, m.color)
               [] m.value = "Reset" -> handle_reset_command(p, m.id)
               [] OTHER -> <<>>

---------------------------------------------------------------------------
\* Idle values of the three groups of variables

SetIdle ==
    /\ lcs = DefaultSet
    /\ prevLcs = <<>>
    /\ lastSet = <<>>
    /\ report = <<>>

NoPacket == [kind |-> "None", addr |-> <<>>, args |-> <<>>]

OscIdle ==
    /\ pc = "off"
    /\ packet = NoPacket
    /\ light = "None"
    /\ bindingNul = FALSE
    /\ handled = 0
    /\ openCalls = 0
    /\ openOks = 0
    /\ nWritten = 0
    /\ lastReport = <<>>
    /\ lastWrite = "none"
    /\ lastOpen = "none"
    /\ stopCause = "none"

CliIdle ==
    /\ cliPc = "off"
    /\ cliTokens = <<>>
    /\ cliReset = FALSE
    /\ cliAll = FALSE
    /\ cliPath = <<>>
    /\ cliDevices = 0
    /\ cliCommands = <<>>
    /\ cliHidInit = FALSE
    /\ cliOpened = <<>>
    /\ cliAttempts = <<>>
    /\ cliWrites = <<>>
    /\ cliLightset = <<>>

---------------------------------------------------------------------------
\* LightCommandSet on its own: any command set, any set(), to_report()

InitSet ==
    /\ lcs \in LightCommandSets
    /\ prevLcs = <<>>
    /\ lastSet = <<>>
    /\ report = <<>>
    /\ OscIdle
    /\ CliIdle

\* lcs.set(color, mode); a report made earlier is of the old value
SetChannel ==
    /\ \E color \in Colors, mode \in LightModes :
        /\ lcs' = set(lcs, color, mode)
        /\ lastSet' = <<color, mode>>
    /\ prevLcs' = lcs
    /\ report' = <<>>
    /\ UNCHANGED <<oscVars, cliVars>>

\* lcs.to_report()
Serialize ==
    /\ report = <<>>
    /\ report' = to_report(lcs)
    /\ UNCHANGED <<lcs, prevLcs, lastSet, oscVars, cliVars>>

NextSet == SetChannel \/ Serialize

SpecSet == InitSet /\ [][NextSet]_vars

---------------------------------------------------------------------------
\* qlight-osc : what the socket can deliver

\* addresses of incoming messages
Addrs ==
    {<<"/", "l", "i", "g", "h", "t", "s", "/", "1", "/", "r", "e", "d">>,   \* /lights/1/red
     <<"/", "l", "i", "g", "h", "t", "s", "/", "2", "/", "r", "e", "d">>,   \* /lights/2/red
     <<"/", "l", "i", "g", "h", "t", "s", "/", "1", "/", "R", "E", "D">>,   \* /lights/1/RED
     <<"/", "l", "i", "g", "h", "t", "s", "/", "2", "/", "Y", "e", "l", "l", "o", "w">>,   \* /lights/2/Yellow
     <<"/", "l", "i", "g", "h", "t", "s", "/", "1", "/", "g", "r", "e", "e", "n">>,   \* /lights/1/green
     <<"/", "l", "i", "g", "h", "t", "s", "/", "7", "/", "b", "L", "u", "E">>,   \* /lights/7/bLuE
     <<"/", "l", "i", "g", "h", "t", "s", "/", "1", "/", "w", "h", "i", "t", "e">>,   \* /lights/1/white
     <<"/", "l", "i", "g", "h", "t", "s", "/", "1", "/", "p", "u", "r", "p", "l", "e">>,   \* /lights/1/purple
     <<"/", "l", "i", "g", "h", "t", "s", "/", "1">>,   \* /lights/1
     <<"/", "l", "i", "g", "h", "t", "s", "/", "1", "/", "r", "e", "d", "/", "x">>,   \* /lights/1/red/x
     <<"/", "l", "i", "g", "h", "t", "s", "/", "/", "r", "e", "d">>,   \* /lights//red
     <<"/", "l", "i", "g", "h", "t", "s", "/", "1", "/", "r", "e", "d", "/">>,   \* /lights/1/red/
     <<"/", "L", "i", "g", "h", "t", "s", "/", "1", "/", "r", "e", "d">>,   \* /Lights/1/red
     <<"/", "r", "e", "s", "e", "t", "/", "1">>,   \* /reset/1
     <<"/", "r", "e", "s", "e", "t", "/", "5">>,   \* /reset/5
     <<"/", "r", "e", "s", "e", "t">>,   \* /reset
     <<"/", "r", "e", "s", "e", "t", "/", "1", "/", "2">>,   \* /reset/1/2
     <<"/", "r", "e", "s", "e", "t", "/">>,   \* /reset/
     <<"l", "i", "g", "h", "t", "s", "/", "1", "/", "r", "e", "d">>,   \* lights/1/red
     <<"/", "u", "n", "k", "n", "o", "w", "n", "/", "p", "a", "t", "h">>}   \* /unknown/path

\* argument lists of incoming messages
ArgLists ==
    {<<>>,
     <<OscArg("Int", 0)>>, <<OscArg("Int", 1)>>, <<OscArg("Int", 2)>>,
     <<OscArg("Int", 3)>>, <<OscArg("Int", -1)>>,
     <<OscArg("Float", 1)>>, <<OscArg("Long", 1)>>,
     <<OscArg("Int", 1), OscArg("Int", 1)>>,
     <<OscArg("Int", 2), OscArg("Float", 0)>>}

Message(addr, args) == [kind |-> "Message", addr |-> addr, args |-> args]

Bundle == [kind |-> "Bundle", addr |-> <<>>, args |-> <<>>]

\* the packets decode_udp can return
Packets == {Message(a, l) : a \in Addrs, l \in ArgLists} \cup {Bundle}

---------------------------------------------------------------------------
\* qlight-osc : the server

InitOsc ==
    /\ pc = "recv"
    /\ packet = NoPacket
    /\ light = "None"
    /\ bindingNul \in BOOLEAN
    /\ handled = 0
    /\ openCalls = 0
    /\ openOks = 0
    /\ nWritten = 0
    /\ lastReport = <<>>
    /\ lastWrite = "none"
    /\ lastOpen = "none"
    /\ stopCause = "none"
    /\ SetIdle
    /\ CliIdle

\* sock.recv_from and decode_udp return a packet
RecvPacket ==
    /\ pc = "recv"
    /\ handled < MaxPackets
    /\ \E p \in Packets : packet' = p
    /\ handled' = handled + 1
    /\ pc' = "handle"
    /\ lastWrite' = "none"
    /\ lastOpen' = "none"
    /\ UNCHANGED <<light, bindingNul, openCalls, openOks, nWritten, lastReport,
                   stopCause>>
    /\ UNCHANGED <<setVars, cliVars>>

\* the Err arm of recv_from without its break
RecvError_KeepsReceiving ==
    /\ pc = "recv"
    /\ stopCause = "none"
    /\ pc' = "recv"
    /\ stopCause' = "recv_error"
    /\ UNCHANGED <<packet, light, bindingNul, handled, openCalls, openOks,
                   nWritten, lastReport, lastWrite, lastOpen>>
    /\ UNCHANGED <<setVars, cliVars>>

\* sock.recv_from fails: main breaks out of the loop and returns Ok(())
RecvError ==
    /\ pc = "recv"
    /\ pc' = "stopped"
    /\ stopCause' = "recv_error"
    /\ UNCHANGED <<packet, light, bindingNul, handled, openCalls, openOks,
                   nWritten, lastReport, lastWrite, lastOpen>>
    /\ UNCHANGED <<setVars, cliVars>>

\* decode_udp fails: main returns the error
DecodeError ==
    /\ pc = "recv"
    /\ pc' = "failed"
    /\ stopCause' = "decode_error"
    /\ UNCHANGED <<packet, light, bindingNul, handled, openCalls, openOks,
                   nWritten, lastReport, lastWrite, lastOpen>>
    /\ UNCHANGED <<setVars, cliVars>>

\* get_or_init_light without the is_none test: it opens on every call
get_or_init_light_AlwaysOpens ==
    IF bindingNul THEN {<<"err", light, 0, 0>>}
    ELSE {<<"ok", "Some", 1, 1>>, <<"err", light, 1, 0>>}

\* get_or_init_light storing the light before the open has succeeded
get_or_init_light_CachesOnFailure ==
    IF light # "None" THEN {<<"ok", light, 0, 0>>}
    ELSE IF bindingNul THEN {<<"err", "None", 0, 0>>}
    ELSE {<<"ok", "Some", 1, 1>>, <<"err", "Some", 1, 0>>}

\* LightThing::get_or_init_light, as the outcomes it can have in a state:
\* <<result, light after, open_path calls made, open_path calls succeeded>>
get_or_init_light ==
    IF light # "None" THEN {<<"ok", light, 0, 0>>}
    ELSE IF bindingNul THEN {<<"err", "None", 0, 0>>}
    ELSE {<<"ok", "Some", 1, 1>>, <<"err", "None", 1, 0>>}

\* Light::update on the cached light, as the outcomes device.write can have:
\* <<result, reports accepted, last report accepted>>
update(light_set) ==
    {<<"ok", nWritten + 1, to_report(light_set)>>, <<"err", nWritten, lastReport>>}

\* QlightOsc::handle_packet and the `?` main applies to its result
HandlePacket ==
    /\ pc = "handle"
    /\ LET lcsOpt == Resolve(packet)
       IN  IF lcsOpt = <<>>
           THEN /\ pc' = "recv"
                /\ UNCHANGED <<light, openCalls, openOks, nWritten, lastReport,
                               lastWrite, lastOpen, stopCause>>
           ELSE \E g \in get_or_init_light :
                /\ lastOpen' = g[1]
                /\ light' = g[2]
                /\ openCalls' = openCalls + g[3]
                /\ openOks' = openOks + g[4]
                /\ IF g[1] = "err"
                   THEN /\ pc' = "recv"
                        /\ UNCHANGED <<nWritten, lastReport, lastWrite, stopCause>>
                   ELSE \E u \in update(lcsOpt[1]) :
                        /\ lastWrite' = u[1]
                        /\ nWritten' = u[2]
                        /\ lastReport' = u[3]
                        /\ pc' = IF u[1] = "ok" THEN "recv" ELSE "failed"
                        /\ stopCause' = IF u[1] = "ok" THEN stopCause
                                        ELSE "write_error"
    /\ UNCHANGED <<packet, bindingNul, handled>>
    /\ UNCHANGED <<setVars, cliVars>>

Next == RecvPacket \/ RecvError \/ DecodeError \/ HandlePacket

Spec == InitOsc /\ [][Next]_vars

---------------------------------------------------------------------------
\* qlight set : the command line

\* parse_command taking LightMode::default() for a mode it cannot parse
parse_command_ModeDefaults(str) ==
    LET sp == split_once(str, ":")
    IN  IF sp = <<>> THEN <<>>
        ELSE LET color == ColorTryFrom(sp[1])
                 light_mode == LightModeTryFrom(sp[2])
             IN  IF color = None THEN <<>>
                 ELSE IF light_mode = None THEN <<color, LightModeDefault>>
                 ELSE <<color, light_mode>>

\* parse_command; <<>> stands for Err, <<color, mode>> for Ok
parse_command(str) ==
    LET sp == split_once(str, ":")
    IN  IF sp = <<>> THEN <<>>
        ELSE LET color == ColorTryFrom(sp[1])
                 light_mode == LightModeTryFrom(sp[2])
             IN  IF color = None THEN <<>>
                 ELSE IF light_mode = None THEN <<>>
                 ELSE <<color, light_mode>>

\* the LightCommandSet set() starts from
StartSet(reset) == IF reset THEN all_off ELSE DefaultSet

\* the loop of set() keeping the first command of a color
RECURSIVE FoldCommands_FirstWins(_, _)
FoldCommands_FirstWins(lightset, commands) ==
    IF commands = <<>> THEN lightset
    ELSE set(FoldCommands_FirstWins(lightset, Tail(commands)),
             Head(commands)[1], Head(commands)[2])

\* the loop of set() over args.commands
RECURSIVE FoldCommands(_, _)
FoldCommands(lightset, commands) ==
    IF commands = <<>> THEN lightset
    ELSE FoldCommands(set(lightset, Head(commands)[1], Head(commands)[2]),
                      Tail(commands))

\* positional tokens a user types
Tokens ==
    {<<"r", "e", "d", ":", "o", "n">>,   \* red:on
     <<"R", "E", "D", ":", "o", "f", "f">>,   \* RED:off
     <<"Y", "e", "l", "l", "o", "w", ":", "b", "l", "i", "n", "k">>,   \* Yellow:blink
     <<"g", "r", "e", "e", "n", ":", "O", "n">>,   \* green:On
     <<"G", "r", "E", "e", "N", ":", "B", "l", "I", "n", "K">>,   \* GrEeN:BlInK
     <<"b", "l", "u", "e", ":", "o", "f", "f">>,   \* blue:off
     <<"w", "h", "i", "t", "e", ":", "b", "l", "i", "n", "k">>,   \* white:blink
     <<"r", "e", "d", ":", "B", "L", "I", "N", "K">>,   \* red:BLINK
     <<"r", "e", "d">>,   \* red
     <<"p", "u", "r", "p", "l", "e", ":", "o", "n">>,   \* purple:on
     <<"r", "e", "d", ":", "f", "l", "o", "r", "b">>,   \* red:florb
     <<"r", "e", "d", ":", "i", "g", "n", "o", "r", "e">>,   \* red:ignore
     <<"b", "l", "u", "e", ":", "o", "n", ":", "o", "f", "f">>,   \* blue:on:off
     <<":", "o", "n">>}   \* :on

\* sequences of at most n elements of S
SeqsUpTo(S, n) == UNION {[1..k -> S] : k \in 0..n}

\* values of --path a user types; a path is named by a number
PathLists == {<<>>, <<1>>, <<1, 2>>, <<2, 2>>}

InitCli ==
    /\ cliPc = "start"
    /\ cliTokens \in SeqsUpTo(Tokens, MaxTokens)
    /\ cliReset \in BOOLEAN
    /\ cliAll \in BOOLEAN
    /\ cliPath \in PathLists
    /\ cliDevices \in 0..MaxDevices
    /\ cliCommands = <<>>
    /\ cliHidInit = FALSE
    /\ cliOpened = <<>>
    /\ cliAttempts = <<>>
    /\ cliWrites = <<>>
    /\ cliLightset = <<>>
    /\ SetIdle
    /\ OscIdle

\* Args::parse() accepts the `set` command line: every token passes the
\* value parser and exactly one of --all, --path is given
ArgsAccepted ==
    /\ \A i \in 1..Len(cliTokens) : parse_command(cliTokens[i]) # <<>>
    /\ cliAll # (cliPath # <<>>)

\* main: Args::parse() on a `set` command line
CliParse ==
    /\ cliPc = "start"
    /\ IF ArgsAccepted
       THEN /\ cliCommands' = [i \in 1..Len(cliTokens) |-> parse_command(cliTokens[i])]
            /\ cliPc' = "set"
       ELSE /\ cliCommands' = cliCommands
            /\ cliPc' = "usage_error"
    /\ UNCHANGED <<cliTokens, cliReset, cliAll, cliPath, cliDevices, cliHidInit,
                   cliOpened, cliAttempts, cliWrites, cliLightset>>
    /\ UNCHANGED <<setVars, oscVars>>

\* the devices set() opens, in order: Light::get_devices or args.path
Targets == IF cliAll THEN [i \in 1..cliDevices |-> i] ELSE cliPath

\* set(): HidApi::new() fails
CliSetNoHid ==
    /\ cliPc = "set"
    /\ cliHidInit' = TRUE
    /\ cliPc' = "failed"
    /\ UNCHANGED <<cliTokens, cliReset, cliAll, cliPath, cliDevices, cliCommands,
                   cliOpened, cliAttempts, cliWrites, cliLightset>>
    /\ UNCHANGED <<setVars, oscVars>>

\* set() going on to the next light after a write has failed
CliSet_KeepsGoing ==
    /\ cliPc = "set"
    /\ cliHidInit' = TRUE
    /\ \E nOpen \in 0..Len(Targets) :
        /\ cliOpened' = SubSeq(Targets, 1, nOpen)
        /\ IF nOpen < Len(Targets) \/ Targets = <<>>
           THEN /\ cliPc' = "failed"
                /\ UNCHANGED <<cliAttempts, cliWrites, cliLightset>>
           ELSE LET lightset == FoldCommands(StartSet(cliReset), cliCommands)
                IN  /\ cliLightset' = <<lightset>>
                    /\ cliAttempts' = Targets
                    /\ \E nWrite \in 0..Len(Targets) :
                        /\ cliWrites' = [i \in 1..(Len(Targets) - nWrite) |->
                                            <<Targets[i + nWrite], to_report(lightset)>>]
                        /\ cliPc' = IF nWrite > 0 THEN "failed" ELSE "done"
    /\ UNCHANGED <<cliTokens, cliReset, cliAll, cliPath, cliDevices, cliCommands>>
    /\ UNCHANGED <<setVars, oscVars>>

\* set() writing to each light as soon as it is opened
CliSet_WritesAsItOpens ==
    /\ cliPc = "set"
    /\ cliHidInit' = TRUE
    /\ \E nOpen \in 0..Len(Targets) :
        LET lightset == FoldCommands(StartSet(cliReset), cliCommands)
        IN  /\ cliOpened' = SubSeq(Targets, 1, nOpen)
            /\ cliAttempts' = SubSeq(Targets, 1, nOpen)
            /\ cliWrites' = [i \in 1..nOpen |-> <<Targets[i], to_report(lightset)>>]
            /\ cliLightset' = <<lightset>>
            /\ cliPc' = IF nOpen < Len(Targets) \/ Targets = <<>>
                        THEN "failed" ELSE "done"
    /\ UNCHANGED <<cliTokens, cliReset, cliAll, cliPath, cliDevices, cliCommands>>
    /\ UNCHANGED <<setVars, oscVars>>

\* set(): the opens, the empty check, the command set and the writes;
\* nOpen targets open before an open fails, nWrite writes succeed before a
\* write fails
CliSet ==
    /\ cliPc = "set"
    /\ cliHidInit' = TRUE
    /\ \E nOpen \in 0..Len(Targets) :
        /\ cliOpened' = SubSeq(Targets, 1, nOpen)
        /\ IF nOpen < Len(Targets) \/ Targets = <<>>
           THEN /\ cliPc' = "failed"
                /\ UNCHANGED <<cliAttempts, cliWrites, cliLightset>>
           ELSE LET lightset == FoldCommands(StartSet(cliReset), cliCommands)
                IN  /\ cliLightset' = <<lightset>>
                    /\ \E nWrite \in 0..Len(Targets) :
                        /\ cliWrites' = [i \in 1..nWrite |->
                                            <<Targets[i], to_report(lightset)>>]
                        /\ IF nWrite < Len(Targets)
                           THEN /\ cliAttempts' = SubSeq(Targets, 1, nWrite + 1)
                                /\ cliPc' = "failed"
                           ELSE /\ cliAttempts' = Targets
                                /\ cliPc' = "done"
    /\ UNCHANGED <<cliTokens, cliReset, cliAll, cliPath, cliDevices, cliCommands>>
    /\ UNCHANGED <<setVars, oscVars>>

NextCli == CliParse \/ CliSetNoHid \/ CliSet

SpecCli == InitCli /\ [][NextCli]_vars

---------------------------------------------------------------------------
\* Properties of LightCommandSet (SpecSet)

\* C1: to_report() returns 65 bytes: byte 0 is 0x57, byte 1 is 0, bytes 2..6
\* are the mode codes of red, yellow, green, blue, white in that order,
\* byte 7 is the sound-mode code and bytes 8..64 are 0.
C1_ReportLayout ==
    report # <<>> =>
        /\ Len(report) = 65
        /\ Byte(report, 0) = 87
        /\ Byte(report, 1) = 0
        /\ Byte(report, 2) = LightModeCode(lcs.red)
        /\ Byte(report, 3) = LightModeCode(lcs.yellow)
        /\ Byte(report, 4) = LightModeCode(lcs.green)
        /\ Byte(report, 5) = LightModeCode(lcs.blue)
        /\ Byte(report, 6) = LightModeCode(lcs.white)
        /\ Byte(report, 7) = SoundModeCode(lcs.sound)
        /\ \A k \in 8..64 : Byte(report, k) = 0

\* a report of a command set whose six fields are told apart by their bytes
C1_Witness ==
    /\ report # <<>>
    /\ lcs = [red |-> "On", yellow |-> "Blink", green |-> "Ignore",
              blue |-> "Off", white |-> "On", sound |-> "Noise5"]

\* C5: set(color, mode) puts exactly the given mode (Ignore included) in
\* that color's channel and leaves the other four channels and the sound
\* mode as they were; the same set applied again changes nothing.
C5_SetFrame ==
    [][(report' = <<>> /\ lastSet' # <<>>) =>
        /\ Channel(lcs', lastSet'[1]) = lastSet'[2]
        /\ \A k \in Colors \ {lastSet'[1]} : Channel(lcs', k) = Channel(lcs, k)
        /\ lcs'.sound = lcs.sound
        /\ set(lcs', lastSet'[1], lastSet'[2]) = lcs'
        /\ (lastSet' = lastSet => lcs' = lcs)]_vars

\* red was On and has been set to Ignore, next to channels of other modes
C5_Witness ==
    /\ lastSet = <<"Red", "Ignore">>
    /\ prevLcs # <<>>
    /\ prevLcs.red = "On"
    /\ lcs.red = "Ignore"
    /\ lcs.blue = "Blink"
    /\ lcs.sound = "Noise3"

---------------------------------------------------------------------------
\* Properties of the OSC server (Spec)

\* the lowercase name of a color
ColorName(c) ==
    CASE c = "Red" -> <<"r", "e", "d">>
      [] c = "Yellow" -> <<"y", "e", "l", "l", "o", "w">>
      [] c = "Green" -> <<"g", "r", "e", "e", "n">>
      [] c = "Blue" -> <<"b", "l", "u", "e">>
      [] c = "White" -> <<"w", "h", "i", "t", "e">>

\* the match of every address the socket can deliver
RouteOf == [addr \in Addrs |-> RouterAt(addr)]

\* the packet in hand is a message matched by the given route
Routed(route) ==
    /\ pc = "handle"
    /\ packet.kind = "Message"
    /\ RouteOf[packet.addr].value = route

\* the color parameter of the packet in hand names a color
ValidColorParam ==
    \E c \in Colors : to_lowercase(RouteOf[packet.addr].color) = ColorName(c)

\* the argument list of the packet in hand is one integer among 0, 1, 2
ValidModeArgs ==
    /\ Len(packet.args) = 1
    /\ packet.args[1].t = "Int"
    /\ packet.args[1].v \in {0, 1, 2}

\* this step opens nothing, writes nothing and returns to the receive
NoEffectAndContinue ==
    /\ openCalls' = openCalls
    /\ openOks' = openOks
    /\ light' = light
    /\ nWritten' = nWritten
    /\ lastReport' = lastReport
    /\ lastOpen' = "none"
    /\ lastWrite' = "none"
    /\ pc' = "recv"

\* C2: a Color-routed message whose color parameter is a case-insensitive
\* color name and whose arguments are exactly one integer 0, 1 or 2 resolves
\* to the default command set with only that channel set, to Off, On or
\* Blink; a report written for it has that code at the color's byte, 3 at
\* the other bytes of 2..6 and 6 at byte 7.
C2_ColorCommand ==
    [][Routed("Color") =>
        LET name == to_lowercase(RouteOf[packet.addr].color)
            resolved == Resolve(packet)
        IN  \A c \in Colors, v \in {0, 1, 2} :
            (name = ColorName(c) /\ packet.args = <<[t |-> "Int", v |-> v]>>)
            =>
            /\ resolved # <<>>
            /\ Channel(resolved[1], c) = <<"Off", "On", "Blink">>[v + 1]
            /\ \A k \in Colors \ {c} : Channel(resolved[1], k) = "Ignore"
            /\ resolved[1].sound = "Ignore"
            /\ lastOpen' = "ok" => lastWrite' # "none"
            /\ lastWrite' = "ok" =>
                /\ nWritten' = nWritten + 1
                /\ Byte(lastReport', ColorByte(c)) = v
                /\ \A k \in (2..6) \ {ColorByte(c)} : Byte(lastReport', k) = 3
                /\ Byte(lastReport', 7) = 6]_vars

\* /lights/7/bLuE with the argument 2 has been written as blue Blink
C2_Witness ==
    /\ pc = "recv"
    /\ lastWrite = "ok"
    /\ packet.kind = "Message"
    /\ RouterAt(packet.addr).value = "Color"
    /\ RouterAt(packet.addr).color = <<"b", "L", "u", "E">>
    /\ packet.args = <<[t |-> "Int", v |-> 2]>>
    /\ Byte(lastReport, 5) = 2
    /\ Byte(lastReport, 2) = 3

\* C3: a Reset-routed message resolves to all_off whatever its arguments;
\* a report written for it has bytes 2..7 all 0.
C3_ResetCommand ==
    [][Routed("Reset") =>
        /\ Resolve(packet) # <<>>
        /\ \A k \in Colors : Channel(Resolve(packet)[1], k) = "Off"
        /\ Resolve(packet)[1].sound = "Off"
        /\ lastOpen' = "ok" => lastWrite' # "none"
        /\ lastWrite' = "ok" =>
            /\ nWritten' = nWritten + 1
            /\ \A k \in 2..7 : Byte(lastReport', k) = 0]_vars

\* a reset carrying two arguments has been written after a color command
C3_Witness ==
    /\ pc = "recv"
    /\ lastWrite = "ok"
    /\ packet.kind = "Message"
    /\ RouterAt(packet.addr).value = "Reset"
    /\ Len(packet.args) = 2
    /\ nWritten = 2
    /\ Byte(lastReport, 7) = 0

\* C6: a Color-routed message whose color parameter is no color, or whose
\* arguments are not exactly one integer among 0, 1, 2, is declined: no
\* open, no write, handle_packet succeeds and the loop receives again.
C6_ColorDeclined ==
    [][(Routed("Color") /\ (~ValidColorParam \/ ~ValidModeArgs))
        => NoEffectAndContinue]_vars

\* /lights/1/purple with the argument 1 has been declined, nothing opened
C6_Witness ==
    /\ pc = "recv"
    /\ handled = 1
    /\ packet.kind = "Message"
    /\ RouterAt(packet.addr).value = "Color"
    /\ RouterAt(packet.addr).color = <<"p", "u", "r", "p", "l", "e">>
    /\ packet.args = <<[t |-> "Int", v |-> 1]>>
    /\ openCalls = 0
    /\ nWritten = 0

\* C7: a Bundle, or a message whose address matches no route, is discarded:
\* no open, no write, the cached handle is unchanged and the loop receives
\* again.
C7_Discarded ==
    [][(/\ pc = "handle"
        /\ \/ packet.kind = "Bundle"
           \/ packet.kind = "Message" /\ RouteOf[packet.addr].value = None)
        => NoEffectAndContinue]_vars

\* a Bundle has been discarded by a server that holds an open device
C7_Witness ==
    /\ pc = "recv"
    /\ packet.kind = "Bundle"
    /\ light = "Some"
    /\ nWritten = 1
    /\ handled = 2

\* C8: a device write failure leaves the server in its receive loop.
C8_WriteFailureNonFatal ==
    lastWrite = "err" => pc \in {"recv", "handle"}

\* C9: the device is opened successfully at most once: once the light is
\* cached it stays cached, and a later get_or_init_light succeeds without
\* an open call.
C9_OpenOnce ==
    [][/\ openOks' <= 1
       /\ light = "Some" =>
            /\ light' = "Some"
            /\ openCalls' = openCalls
            /\ (pc = "handle" /\ Resolve(packet) # <<>>) => lastOpen' = "ok"]_vars

\* two reports have been written through the handle of the one open
C9_Witness ==
    /\ light = "Some"
    /\ openOks = 1
    /\ openCalls = 1
    /\ nWritten = 2
    /\ lastOpen = "ok"

---------------------------------------------------------------------------
\* Properties of qlight set (SpecCli)

\* greatest element of a non-empty set of integers
Max(S) == CHOOSE x \in S : \A y \in S : x >= y

\* C4: the command set sent by `set` has, for each color, the mode of the
\* last command naming that color, or Off with --reset and Ignore without
\* it when no command names the color; sound is Off with --reset and Ignore
\* without it. Every report written is the report of that command set.
C4_LastCommandWins ==
    cliLightset # <<>> =>
        LET sent == cliLightset[1]
            unnamed == IF cliReset THEN "Off" ELSE "Ignore"
        IN  /\ \A c \in Colors :
                LET named == {i \in 1..Len(cliCommands) : cliCommands[i][1] = c}
                IN  Channel(sent, c) =
                        IF named = {} THEN unnamed ELSE cliCommands[Max(named)][2]
            /\ sent.sound = IF cliReset THEN "Off" ELSE "Ignore"
            /\ \A i \in 1..Len(cliWrites) :
                /\ Byte(cliWrites[i][2], 7) = IF cliReset THEN 0 ELSE 6
                /\ \A c \in Colors :
                    Byte(cliWrites[i][2], ColorByte(c)) = LightModeCode(Channel(sent, c))

\* red:on then RED:off with --reset has been written: red and the rest Off
C4_Witness ==
    /\ cliPc = "done"
    /\ cliReset
    /\ cliCommands = <<(<<"Red", "On">>), (<<"Red", "Off">>)>>
    /\ Len(cliWrites) = 2
    /\ Byte(cliWrites[1][2], 2) = 0
    /\ Byte(cliWrites[2][2], 7) = 0

\* a token with no ':', or whose part before the first ':' is not a color,
\* or whose part after it is not on, off or blink
Malformed(tok) ==
    \/ \A i \in 1..Len(tok) : tok[i] # ":"
    \/ LET i == Min({j \in 1..Len(tok) : tok[j] = ":"})
       IN  \/ \A c \in Colors : to_lowercase(SubSeq(tok, 1, i - 1)) # ColorName(c)
           \/ to_lowercase(SubSeq(tok, i + 1, Len(tok)))
                 \notin {<<"o", "n">>, <<"o", "f", "f">>, <<"b", "l", "i", "n", "k">>}

\* C10: with a malformed positional token the invocation fails before any
\* device I/O: nothing is enumerated, opened or written.
C10_MalformedTokenFatal ==
    (\E i \in 1..Len(cliTokens) : Malformed(cliTokens[i])) =>
        /\ cliPc \in {"start", "usage_error"}
        /\ ~cliHidInit
        /\ cliOpened = <<>>
        /\ cliAttempts = <<>>
        /\ cliWrites = <<>>

\* a good token followed by a bad one, with --all and devices plugged in,
\* has been refused
C10_Witness ==
    /\ cliPc = "usage_error"
    /\ Len(cliTokens) = 2
    /\ ~Malformed(cliTokens[1])
    /\ Malformed(cliTokens[2])
    /\ cliAll
    /\ cliPath = <<>>
    /\ cliDevices = 2

\* C11: `set` writes the one computed command set to the targets in order,
\* once each; when a write fails the invocation fails at once: the targets
\* after it get no write, the failed write is not attempted again, and the
\* targets before it keep the report they received.
C11_WriteAbortsOnFailure ==
    (cliPc \in {"done", "failed"} /\ cliLightset # <<>>) =>
        /\ Len(cliAttempts) <= Len(Targets)
        /\ cliAttempts = SubSeq(Targets, 1, Len(cliAttempts))
        /\ Len(cliWrites) <= Len(cliAttempts)
        /\ \A i \in 1..Len(cliWrites) :
            cliWrites[i] = <<Targets[i], to_report(cliLightset[1])>>
        /\ cliPc = "done" =>
            /\ Len(cliWrites) = Len(Targets)
            /\ Len(cliAttempts) = Len(Targets)
        /\ cliPc = "failed" => Len(cliAttempts) = Len(cliWrites) + 1

\* with --all and two devices the write to the first has failed: the
\* second was never written to
C11_Witness ==
    /\ cliPc = "failed"
    /\ cliAll
    /\ cliDevices = 2
    /\ cliOpened = <<1, 2>>
    /\ cliLightset # <<>>
    /\ cliAttempts = <<1>>
    /\ cliWrites = <<>>

\* C18: `set` opens every target before it writes the first report: with
\* no target, or with a target that fails to open, the invocation fails and
\* no report has been written, not even to the targets already opened.
C18_OpenAllBeforeWrite ==
    /\ cliAttempts # <<>> => (Targets # <<>> /\ cliOpened = Targets)
    /\ (cliPc \in {"done", "failed"} /\ (Targets = <<>> \/ cliOpened # Targets)) =>
        /\ cliPc = "failed"
        /\ cliAttempts = <<>>
        /\ cliWrites = <<>>

\* --path 1 --path 2: the first opened, the second did not, nothing written
C18_Witness ==
    /\ cliPc = "failed"
    /\ cliPath = <<1, 2>>
    /\ cliOpened = <<1>>
    /\ cliAttempts = <<>>
    /\ cliWrites = <<>>

\* the lowercase name of a mode a user may type
ModeName(m) ==
    CASE m = "On" -> <<"o", "n">>
      [] m = "Off" -> <<"o", "f", "f">>
      [] m = "Blink" -> <<"b", "l", "i", "n", "k">>

\* the parts of a token before and after its first ':'
BeforeColon(tok) == SubSeq(tok, 1, Min({j \in 1..Len(tok) : tok[j] = ":"}) - 1)

AfterColon(tok) == SubSeq(tok, Min({j \in 1..Len(tok) : tok[j] = ":"}) + 1, Len(tok))

\* C12: a token is accepted exactly when it holds a ':' and, split at the
\* first ':', its left part spells a color and its whole right part spells
\* on, off or blink, in any case; the command is then that color and mode.
\* Any other token is refused, "ignore" as a mode and a second ':' in the
\* mode part included.
C12_ParseCommand ==
    cliPc # "start" =>
        /\ (cliPc = "usage_error" /\ cliAll # (cliPath # <<>>)) =>
            \E i \in 1..Len(cliTokens) : Malformed(cliTokens[i])
        /\ cliPc # "usage_error" =>
            /\ Len(cliCommands) = Len(cliTokens)
            /\ \A i \in 1..Len(cliTokens) :
                /\ ~Malformed(cliTokens[i])
                /\ cliCommands[i][1] \in Colors
                /\ cliCommands[i][2] \in {"On", "Off", "Blink"}
                /\ to_lowercase(BeforeColon(cliTokens[i])) = ColorName(cliCommands[i][1])
                /\ to_lowercase(AfterColon(cliTokens[i])) = ModeName(cliCommands[i][2])

\* GrEeN:BlInK has been accepted as (Green, Blink)
C12_Witness ==
    /\ cliPc = "set"
    /\ cliTokens = << <<"G", "r", "E", "e", "N", ":", "B", "l", "I", "n", "K">> >>
    /\ cliCommands = << <<"Green", "Blink">> >>

\* C13: an address matches the Color route exactly when it has three
\* non-empty segments of which the first is `lights`, with id and color
\* bound to the second and third; it matches the Reset route exactly when
\* it has two non-empty segments of which the first is `reset`, with id
\* bound to the second; any other address matches nothing.
C13_RouteTable ==
    (pc = "handle" /\ packet.kind = "Message") =>
        LET a == packet.addr
            segs == IF a # <<>> /\ a[1] = "/"
                    THEN Split(SubSeq(a, 2, Len(a)), "/") ELSE <<>>
            isColor == /\ Len(segs) = 3
                       /\ segs[1] = <<"l", "i", "g", "h", "t", "s">>
                       /\ segs[2] # <<>>
                       /\ segs[3] # <<>>
            isReset == /\ Len(segs) = 2
                       /\ segs[1] = <<"r", "e", "s", "e", "t">>
                       /\ segs[2] # <<>>
            m == RouterAt(a)
        IN  /\ m.value = "Color" <=> isColor
            /\ isColor => (m.id = segs[2] /\ m.color = segs[3])
            /\ m.value = "Reset" <=> isReset
            /\ isReset => m.id = segs[2]
            /\ (~isColor /\ ~isReset) => m.value = None

\* /lights/7/bLuE is in hand, matched as Color with id 7 and color bLuE
C13_Witness ==
    /\ pc = "handle"
    /\ packet.kind = "Message"
    /\ packet.addr = <<"/", "l", "i", "g", "h", "t", "s", "/", "7", "/", "b", "L", "u", "E">>
    /\ RouterAt(packet.addr) =
        [value |-> "Color", id |-> <<"7">>, color |-> <<"b", "L", "u", "E">>]

\* C14: the report of a command set built by default() has bytes 2..6 all
\* 3 and byte 7 equal to 6; the report of one built by all_off() has bytes
\* 2..7 all 0.
C14_DefaultAndAllOffReports ==
    (cliLightset # <<>> /\ cliCommands = <<>>) =>
        \A r \in {to_report(cliLightset[1])} \cup {cliWrites[i][2] : i \in 1..Len(cliWrites)} :
            IF cliReset
            THEN \A k \in 2..7 : Byte(r, k) = 0
            ELSE /\ \A k \in 2..6 : Byte(r, k) = 3
                 /\ Byte(r, 7) = 6

\* `set` without commands and without --reset has written the report of
\* the default command set
C14_Witness ==
    /\ cliPc = "done"
    /\ cliCommands = <<>>
    /\ ~cliReset
    /\ Len(cliWrites) = 1
    /\ Byte(cliWrites[1][2], 2) = 3
    /\ Byte(cliWrites[1][2], 7) = 6

\* C15: when the open fails for a resolved command, the command is dropped
\* with no report written, handle_packet succeeds and the loop receives
\* again, and no handle is cached: the next resolved command runs the open
\* again.
C15_OpenFailureNotCached ==
    [][/\ (pc = "handle" /\ lastOpen' = "err") =>
            /\ Resolve(packet) # <<>>
            /\ nWritten' = nWritten
            /\ lastReport' = lastReport
            /\ lastWrite' = "none"
            /\ light' = "None"
            /\ pc' = "recv"
            /\ stopCause' = "none"
       /\ (pc = "handle" /\ openCalls > openOks /\ light = "None"
            /\ Resolve(packet) # <<>>) =>
            /\ openCalls' = openCalls + 1
            /\ lastOpen' \in {"ok", "err"}]_vars

\* the first open failed, the open for the next command succeeded and its
\* report was written
C15_Witness ==
    /\ handled = 2
    /\ openCalls = 2
    /\ openOks = 1
    /\ light = "Some"
    /\ nWritten = 1
    /\ lastWrite = "ok"

\* C16: a socket receive error or a decode failure ends the receive loop
\* for good: afterwards no packet is handled and no device is opened or
\* written to.
C16_LoopStops ==
    [][/\ stopCause' \in {"recv_error", "decode_error"} =>
            pc' \in {"stopped", "failed"}
       /\ stopCause \in {"recv_error", "decode_error"} =>
            UNCHANGED <<pc, packet, handled, light, openCalls, openOks,
                        nWritten, lastReport>>]_vars

\* a decode failure after one written report, with packets still to come
C16_Witness ==
    /\ stopCause = "decode_error"
    /\ pc = "failed"
    /\ handled = 1
    /\ nWritten = 1

\* C17: every report the server writes has bytes 2..7 all 0, or has one of
\* bytes 2..6 among 0, 1, 2, the other four equal to 3 and byte 7 equal to
\* 6; the sound byte is never one of the Noise codes 1..5.
C17_ReportShapes ==
    lastReport # <<>> =>
        /\ \/ \A k \in 2..7 : Byte(lastReport, k) = 0
           \/ /\ \E k \in 2..6 :
                    /\ Byte(lastReport, k) \in {0, 1, 2}
                    /\ \A j \in (2..6) \ {k} : Byte(lastReport, j) = 3
              /\ Byte(lastReport, 7) = 6
        /\ Byte(lastReport, 7) \in {0, 6}

\* a color report has been written after a reset report
C17_Witness ==
    /\ nWritten = 2
    /\ lastWrite = "ok"
    /\ Byte(lastReport, 4) = 2
    /\ Byte(lastReport, 7) = 6
    /\ handled = 3

\* an address that differs from the address in hand in its id segment only
SameButId(addr) ==
    LET m == RouteOf[packet.addr]
        n == RouteOf[addr]
    IN  /\ addr # packet.addr
        /\ n.value = m.value
        /\ n.color = m.color

\* C19: the id segment has no effect: a routed message resolves to the
\* command set (or is declined) that any message differing from it in the
\* id only resolves to, and the report the one device session receives for
\* it is the report of that command set.
C19_IdIgnored ==
    [][Routed("Color") \/ Routed("Reset") =>
        \A addr \in Addrs : SameButId(addr) =>
            LET twin == Resolve(Message(addr, packet.args))
            IN  /\ twin = Resolve(packet)
                /\ lastWrite' = "ok" =>
                    /\ twin # <<>>
                    /\ lastReport' = to_report(twin[1])]_vars

\* /lights/2/red with the argument 1 has been written after another report
C19_Witness ==
    /\ pc = "recv"
    /\ packet.kind = "Message"
    /\ RouterAt(packet.addr) = [value |-> "Color", id |-> <<"2">>, color |-> <<"r", "e", "d">>]
    /\ packet.args = <<[t |-> "Int", v |-> 1]>>
    /\ lastWrite = "ok"
    /\ nWritten = 2
    /\ Byte(lastReport, 2) = 1

=============================================================================
